---- MODULE Spec2Model ----
(***************************************************************************)
(* The connection pool of clickhouse.go: Open, acquire, release, Close and *)
(* the handlers built on them (ServerVersion, Query, Exec, PrepareBatch,   *)
(* Ping).  ch.open is a buffered channel of struct{} used as a counting    *)
(* semaphore, so only its length is kept; ch.idle is a buffered channel of *)
(* *connect, kept as a FIFO sequence of Session identities.                *)
(***************************************************************************)
EXTENDS Integers, Sequences, FiniteSets, TLC

(* ------------------------------ bounds --------------------------------- *)
\* calls into the pool in one behaviour, each on a goroutine of its own
NumCallers == 2

Callers == 1..NumCallers

(* --------------------------- configuration ----------------------------- *)
\* time.Second and time.Hour, in clock ticks of one second
Second == 1
Hour == 3600

\* the nil *connect
Nil == 0

\* Options.setDefaults
setDefaults(o) ==
    LET o1 == IF o.Database = "" THEN [o EXCEPT !.Database = "default"] ELSE o
        o2 == IF o1.Username = "" THEN [o1 EXCEPT !.Username = "default"] ELSE o1
        o3 == IF o2.DialTimeout = 0 THEN [o2 EXCEPT !.DialTimeout = Second] ELSE o2
        o4 == IF o3.MaxIdleConns <= 0 THEN [o3 EXCEPT !.MaxIdleConns = 5] ELSE o3
        o5 == IF o4.MaxOpenConns <= 0
              THEN [o4 EXCEPT !.MaxOpenConns = o4.MaxIdleConns + 5] ELSE o4
        o6 == IF o5.ConnMaxLifetime = 0 THEN [o5 EXCEPT !.ConnMaxLifetime = Hour] ELSE o5
    IN  o6

\* an Options value: the address list (dialing a "bad" address fails, dialing
\* a "good" one succeeds), the pool sizes and the lifetime, the rest unset
Options(addr, maxOpen, maxIdle, lifetime) ==
    [Addr |-> addr, Database |-> "", Username |-> "", DialTimeout |-> 0,
     MaxOpenConns |-> maxOpen, MaxIdleConns |-> maxIdle, ConnMaxLifetime |-> lifetime]

\* the Options values handed to Open
PoolOptions ==
    { Options(<<>>, 1, 1, 1),
      Options(<<"bad", "bad">>, 1, 1, 1),
      Options(<<"bad", "bad", "good">>, 1, 1, 1),
      Options(<<"good", "bad">>, 2, 1, 1) }

(* ------------------------------- errors -------------------------------- *)
ErrNil == [kind |-> "nil", addr |-> 0]
EOF == [kind |-> "EOF", addr |-> 0]
\* the error dial returns for the i-th configured address
DialError(i) == [kind |-> "dial", addr |-> i]

(* -------------------------------- state -------------------------------- *)
VARIABLES
    opt,          \* ch.opt, after setDefaults
    open,         \* len(ch.open): permits held
    idle,         \* ch.idle: queue of idle Sessions, head first
    counter,      \* ch.counter
    age,          \* time.Since(conn.connectedAt) of every Session not closed yet,
                  \* in seconds, counted up to ConnMaxLifetime and no further
    errd,         \* the Sessions not closed yet whose conn.err is set
    closed,       \* the Sessions on which close() ran (their fields are dropped)
    pc,           \* where each caller is
    timer,        \* acquire's timer has fired (timer.C is readable)
    conn,         \* the caller's conn: acquire's result, release's argument
    err,          \* acquire's named result err
    num,          \* acquire's num
    tried,        \* addresses the caller's acquire has dialed, in order
    cont,         \* what the caller does when its release returns
    result        \* what the last Send of the caller's batch returned

vars == << opt, open, idle, counter, age, errd, closed,
           pc, timer, conn, err, num, tried, cont, result >>

pool == << open, idle, counter, age, errd, closed >>
local == << timer, conn, err, num, tried, cont, result >>

Range(q) == { q[k] : k \in 1..Len(q) }

\* the Sessions not closed yet, and all those dialed so far
Live == DOMAIN age
Sessions == Live \cup closed

\* the pool's Sessions once conn.close() has run on s
closeConn(s) ==
    /\ closed' = closed \cup { s }
    /\ age' = [t \in Live \ { s } |-> age[t]]
    /\ errd' = errd \ { s }

\* an operation on s has failed: conn.err is set
setErr(s) == IF s \in Live THEN errd \cup { s } ELSE errd

\* dial(addr, num, opt): whether the handshake with addr succeeds
dialOk(addr) == addr = "good"

\* time.Since(conn.connectedAt)
Since(s) == age[s]

\* the caller's call has returned and its locals are gone
Return(c) ==
    /\ pc' = [pc EXCEPT ![c] = "done"]
    /\ timer' = [timer EXCEPT ![c] = FALSE]
    /\ conn' = [conn EXCEPT ![c] = Nil]
    /\ err' = [err EXCEPT ![c] = ErrNil]
    /\ num' = [num EXCEPT ![c] = 0]
    /\ tried' = [tried EXCEPT ![c] = <<>>]
    /\ cont' = [cont EXCEPT ![c] = "done"]
    /\ result' = [result EXCEPT ![c] = "none"]

(* -------------------------------- Open --------------------------------- *)
Init ==
    /\ opt \in { setDefaults(o) : o \in PoolOptions }
    /\ open = 0
    /\ idle = <<>>
    /\ counter = 0
    /\ age = <<>>
    /\ errd = {}
    /\ closed = {}
    /\ pc = [c \in Callers |-> "ready"]
    /\ timer = [c \in Callers |-> FALSE]
    /\ conn = [c \in Callers |-> Nil]
    /\ err = [c \in Callers |-> ErrNil]
    /\ num = [c \in Callers |-> 0]
    /\ tried = [c \in Callers |-> <<>>]
    /\ cont = [c \in Callers |-> "done"]
    /\ result = [c \in Callers |-> "none"]

(* ------------------------------- acquire ------------------------------- *)
\* a handler (ServerVersion, Query, Exec, PrepareBatch, Ping) is entered and
\* calls ch.acquire(), which starts its one-second timer
Call(c) ==
    /\ pc[c] = "ready"
    /\ pc' = [pc EXCEPT ![c] = "acquire_open"]
    /\ UNCHANGED << opt, pool, local >>

\* the timer of a running acquire expires
TimerFires(c) ==
    /\ pc[c] \in { "acquire_open", "acquire_idle" }
    /\ ~timer[c]
    /\ timer' = [timer EXCEPT ![c] = TRUE]
    /\ UNCHANGED << opt, pool, pc, conn, err, num, tried, cont, result >>

\* acquireTimeout with no case <-timer.C in the first select
acquireTimeoutSecondOnly(c) ==
    /\ pc[c] = "acquire_idle"
    /\ timer[c]
    /\ pc' = [pc EXCEPT ![c] = "acquired"]
    /\ conn' = [conn EXCEPT ![c] = Nil]
    /\ err' = [err EXCEPT ![c] = EOF]
    /\ timer' = [timer EXCEPT ![c] = FALSE]
    /\ UNCHANGED << opt, pool, num, tried, cont, result >>

\* case <-timer.C: return nil, io.EOF   (in either select)
acquireTimeout(c) ==
    /\ pc[c] \in { "acquire_open", "acquire_idle" }
    /\ timer[c]
    /\ pc' = [pc EXCEPT ![c] = "acquired"]
    /\ conn' = [conn EXCEPT ![c] = Nil]
    /\ err' = [err EXCEPT ![c] = EOF]
    /\ timer' = [timer EXCEPT ![c] = FALSE]
    /\ UNCHANGED << opt, pool, num, tried, cont, result >>

\* acquireOpen with a send that never waits for room in ch.open
acquireOpenUnbounded(c) ==
    /\ pc[c] = "acquire_open"
    /\ open' = open + 1
    /\ pc' = [pc EXCEPT ![c] = "acquire_idle"]
    /\ UNCHANGED << opt, idle, counter, age, errd, closed, local >>

\* acquireOpen of a pool that hands out no permit once Close has returned
acquireOpenUntilClosed(c) ==
    /\ pc[c] = "acquire_open"
    /\ \A k \in Callers : pc[k] # "closed"
    /\ open < opt.MaxOpenConns
    /\ open' = open + 1
    /\ pc' = [pc EXCEPT ![c] = "acquire_idle"]
    /\ UNCHANGED << opt, idle, counter, age, errd, closed, local >>

\* case ch.open <- struct{}{}: the send goes through when the channel has room
acquireOpen(c) ==
    /\ pc[c] = "acquire_open"
    /\ open < opt.MaxOpenConns
    /\ open' = open + 1
    /\ pc' = [pc EXCEPT ![c] = "acquire_idle"]
    /\ UNCHANGED << opt, idle, counter, age, errd, closed, local >>

\* acquireIdle that reads the head of ch.idle and leaves it there
acquireIdlePeek(c) ==
    /\ pc[c] = "acquire_idle"
    /\ idle # <<>>
    /\ conn' = [conn EXCEPT ![c] = Head(idle)]
    /\ err' = [err EXCEPT ![c] = ErrNil]
    /\ pc' = [pc EXCEPT ![c] = "acquired"]
    /\ timer' = [timer EXCEPT ![c] = FALSE]
    /\ UNCHANGED << opt, pool, num, tried, cont, result >>

\* acquireIdle that takes the head of ch.idle only while it is younger than
\* ConnMaxLifetime
acquireIdleFresh(c) ==
    /\ pc[c] = "acquire_idle"
    /\ idle # <<>>
    /\ Since(Head(idle)) < opt.ConnMaxLifetime
    /\ conn' = [conn EXCEPT ![c] = Head(idle)]
    /\ idle' = Tail(idle)
    /\ err' = [err EXCEPT ![c] = ErrNil]
    /\ pc' = [pc EXCEPT ![c] = "acquired"]
    /\ timer' = [timer EXCEPT ![c] = FALSE]
    /\ UNCHANGED << opt, open, counter, age, errd, closed,
                    num, tried, cont, result >>

\* case conn := <-ch.idle: return conn, nil
acquireIdle(c) ==
    /\ pc[c] = "acquire_idle"
    /\ idle # <<>>
    /\ conn' = [conn EXCEPT ![c] = Head(idle)]
    /\ idle' = Tail(idle)
    /\ err' = [err EXCEPT ![c] = ErrNil]
    /\ pc' = [pc EXCEPT ![c] = "acquired"]
    /\ timer' = [timer EXCEPT ![c] = FALSE]
    /\ UNCHANGED << opt, open, counter, age, errd, closed,
                    num, tried, cont, result >>

\* acquireDefault whose increment of ch.counter is lost
acquireDefaultLost(c) ==
    /\ pc[c] = "acquire_idle"
    /\ idle = <<>>
    /\ ~timer[c]
    /\ num' = [num EXCEPT ![c] = counter + 1]
    /\ pc' = [pc EXCEPT ![c] = "acquire_dial"]
    /\ UNCHANGED << opt, open, idle, counter, age, errd, closed,
                    timer, conn, err, tried, cont, result >>

\* acquireDefault taken although ch.idle holds a Session
acquireDefaultAlways(c) ==
    /\ pc[c] = "acquire_idle"
    /\ ~timer[c]
    /\ counter' = counter + 1
    /\ num' = [num EXCEPT ![c] = counter + 1]
    /\ pc' = [pc EXCEPT ![c] = "acquire_dial"]
    /\ UNCHANGED << opt, open, idle, age, errd, closed,
                    timer, conn, err, tried, cont, result >>

\* default: (no other case is ready), then num := atomic.AddInt64(&ch.counter, 1)
acquireDefault(c) ==
    /\ pc[c] = "acquire_idle"
    /\ idle = <<>>
    /\ ~timer[c]
    /\ counter' = counter + 1
    /\ num' = [num EXCEPT ![c] = counter + 1]
    /\ pc' = [pc EXCEPT ![c] = "acquire_dial"]
    /\ UNCHANGED << opt, open, idle, age, errd, closed,
                    timer, conn, err, tried, cont, result >>

\* acquireDial whose loop goes on after a dial that succeeded
acquireDialNoStop(c) ==
    /\ pc[c] = "acquire_dial"
    /\ Len(tried[c]) < Len(opt.Addr)
    /\ LET i == Len(tried[c]) + 1 IN
       /\ tried' = [tried EXCEPT ![c] = Append(@, i)]
       /\ IF dialOk(opt.Addr[i])
          THEN /\ conn' = [conn EXCEPT ![c] = num[c]]
               /\ err' = [err EXCEPT ![c] = ErrNil]
               /\ age' = (num[c] :> 0) @@ age
          ELSE /\ conn' = [conn EXCEPT ![c] = Nil]
               /\ err' = [err EXCEPT ![c] = DialError(i)]
               /\ age' = age
    /\ UNCHANGED << opt, open, idle, counter, errd, closed,
                    pc, timer, num, cont, result >>

\* one turn of: for _, addr := range ch.opt.Addr { if conn, err = dial(...); err == nil { return } }
acquireDial(c) ==
    /\ pc[c] = "acquire_dial"
    /\ Len(tried[c]) < Len(opt.Addr)
    /\ LET i == Len(tried[c]) + 1 IN
       /\ tried' = [tried EXCEPT ![c] = Append(@, i)]
       /\ IF dialOk(opt.Addr[i])
          THEN /\ conn' = [conn EXCEPT ![c] = num[c]]
               /\ err' = [err EXCEPT ![c] = ErrNil]
               /\ age' = (num[c] :> 0) @@ age
               /\ pc' = [pc EXCEPT ![c] = "acquired"]
          ELSE /\ conn' = [conn EXCEPT ![c] = Nil]
               /\ err' = [err EXCEPT ![c] = DialError(i)]
               /\ UNCHANGED << age, pc >>
    /\ UNCHANGED << opt, open, idle, counter, errd, closed,
                    timer, num, cont, result >>

\* the loop is over: return (conn and err as the last turn left them)
acquireReturn(c) ==
    /\ pc[c] = "acquire_dial"
    /\ Len(tried[c]) = Len(opt.Addr)
    /\ pc' = [pc EXCEPT ![c] = "acquired"]
    /\ UNCHANGED << opt, pool, timer, conn, err, num, tried, cont, result >>

acquire(c) ==
    \/ acquireTimeout(c)
    \/ acquireOpen(c)
    \/ acquireIdle(c)
    \/ acquireDefault(c)
    \/ acquireDial(c)
    \/ acquireReturn(c)

(* ------------------------------- release ------------------------------- *)
\* select { case <-ch.open: default: }
releaseOpen(c) ==
    /\ pc[c] = "release_open"
    /\ open' = IF open > 0 THEN open - 1 ELSE open
    /\ pc' = [pc EXCEPT ![c] = "release_idle"]
    /\ UNCHANGED << opt, idle, counter, age, errd, closed, local >>

\* unusable that does not look at conn.err
unusableAgeOnly(s) == Since(s) >= opt.ConnMaxLifetime

\* unusable with > for >=
unusableStrict(s) == s \in errd \/ Since(s) > opt.ConnMaxLifetime

\* conn.err != nil || time.Since(conn.connectedAt) >= ch.opt.ConnMaxLifetime
unusable(s) == s \in errd \/ Since(s) >= opt.ConnMaxLifetime

\* case ch.idle <- conn: the send goes through when the channel has room
idleHasRoom == Len(idle) < opt.MaxIdleConns

\* releaseIdle that drops a Session for which ch.idle has no room and does
\* not close it
releaseIdleDropFull(c) ==
    /\ pc[c] = "release_idle"
    /\ IF conn[c] = Nil
       THEN /\ pc' = [pc EXCEPT ![c] = "panicked"]
            /\ UNCHANGED << idle, age, errd, closed,
                            timer, conn, err, num, tried, cont, result >>
       ELSE /\ IF unusable(conn[c])
               THEN /\ closeConn(conn[c])
                    /\ idle' = idle
               ELSE IF idleHasRoom
               THEN /\ idle' = Append(idle, conn[c])
                    /\ UNCHANGED << age, errd, closed >>
               ELSE UNCHANGED << idle, age, errd, closed >>
            /\ IF cont[c] = "done"
               THEN Return(c)
               ELSE /\ pc' = [pc EXCEPT ![c] = cont[c]]
                    /\ cont' = [cont EXCEPT ![c] = "done"]
                    /\ UNCHANGED << timer, conn, err, num, tried, result >>
    /\ UNCHANGED << opt, open, counter >>

\* releaseIdle whose send on ch.idle waits for room
releaseIdleBlocking(c) ==
    /\ pc[c] = "release_idle"
    /\ IF conn[c] = Nil
       THEN /\ pc' = [pc EXCEPT ![c] = "panicked"]
            /\ UNCHANGED << idle, age, errd, closed,
                            timer, conn, err, num, tried, cont, result >>
       ELSE /\ IF unusable(conn[c])
               THEN /\ closeConn(conn[c])
                    /\ idle' = idle
               ELSE /\ idleHasRoom
                    /\ idle' = Append(idle, conn[c])
                    /\ UNCHANGED << age, errd, closed >>
            /\ IF cont[c] = "done"
               THEN Return(c)
               ELSE /\ pc' = [pc EXCEPT ![c] = cont[c]]
                    /\ cont' = [cont EXCEPT ![c] = "done"]
                    /\ UNCHANGED << timer, conn, err, num, tried, result >>
    /\ UNCHANGED << opt, open, counter >>

\* the rest of release; reading conn.err of a nil conn panics
releaseIdle(c) ==
    /\ pc[c] = "release_idle"
    /\ IF conn[c] = Nil
       THEN /\ pc' = [pc EXCEPT ![c] = "panicked"]
            /\ UNCHANGED << idle, age, errd, closed,
                            timer, conn, err, num, tried, cont, result >>
       ELSE /\ IF unusable(conn[c])
               THEN /\ closeConn(conn[c])
                    /\ idle' = idle
               ELSE IF idleHasRoom
               THEN /\ idle' = Append(idle, conn[c])
                    /\ UNCHANGED << age, errd, closed >>
               ELSE /\ closeConn(conn[c])
                    /\ idle' = idle
            /\ IF cont[c] = "done"
               THEN Return(c)
               ELSE /\ pc' = [pc EXCEPT ![c] = cont[c]]
                    /\ cont' = [cont EXCEPT ![c] = "done"]
                    /\ UNCHANGED << timer, conn, err, num, tried, result >>
    /\ UNCHANGED << opt, open, counter >>

release(c) == releaseOpen(c) \/ releaseIdle(c)

(* ------------------------------- handlers ------------------------------ *)
\* if err != nil { return nil, err }: the handler gives up, nothing is released
handlerErr(c) ==
    /\ pc[c] = "acquired"
    /\ err[c] # ErrNil
    /\ Return(c)
    /\ UNCHANGED << opt, pool >>

\* defer ch.release(conn), around an operation on conn that sets conn.err when
\* fail holds; k is where the caller is once release has returned
deferRelease(c, fail, k) ==
    /\ pc[c] = "acquired"
    /\ err[c] = ErrNil
    /\ errd' = IF fail THEN setErr(conn[c]) ELSE errd
    /\ pc' = [pc EXCEPT ![c] = "release_open"]
    /\ cont' = [cont EXCEPT ![c] = k]
    /\ timer' = [timer EXCEPT ![c] = FALSE]
    /\ num' = [num EXCEPT ![c] = 0]
    /\ tried' = [tried EXCEPT ![c] = <<>>]
    /\ UNCHANGED << opt, open, idle, counter, age, closed,
                    conn, err, result >>

\* return &conn.server, nil: no traffic on the connection
ServerVersion(c) ==
    \/ handlerErr(c)
    \/ deferRelease(c, FALSE, "done")

\* return conn.query(...): on success the caller is left with the row stream
Query(c) ==
    \/ handlerErr(c)
    \/ deferRelease(c, TRUE, "done")
    \/ deferRelease(c, FALSE, IF conn[c] = Nil THEN "done" ELSE "rows")

\* return conn.exec(...)
Exec(c) ==
    \/ handlerErr(c)
    \/ \E fail \in BOOLEAN : deferRelease(c, fail, "done")

\* return conn.ping(ctx)
Ping(c) ==
    \/ handlerErr(c)
    \/ \E fail \in BOOLEAN : deferRelease(c, fail, "done")

\* PrepareBatch with the defer ch.release(conn) of the other handlers
PrepareBatchDeferred(c) ==
    \/ handlerErr(c)
    \/ deferRelease(c, FALSE, IF conn[c] = Nil THEN "done" ELSE "batch")

\* return conn.prepareBatch(ctx, query, ch.release): no release here; the
\* Batch keeps conn and ch.release.  A nil conn panics in prepareBatch.
PrepareBatch(c) ==
    \/ handlerErr(c)
    \/ /\ pc[c] = "acquired"
       /\ err[c] = ErrNil
       /\ pc' = [pc EXCEPT ![c] = IF conn[c] = Nil THEN "panicked" ELSE "batch"]
       /\ timer' = [timer EXCEPT ![c] = FALSE]
       /\ num' = [num EXCEPT ![c] = 0]
       /\ tried' = [tried EXCEPT ![c] = <<>>]
       /\ UNCHANGED << opt, pool, conn, err, cont, result >>

\* Batch.Send: flushes, then releases the bound Session whether the flush
\* succeeded or not; a Batch already sent answers with a misuse error
Send(c) ==
    \/ /\ pc[c] = "batch"
       /\ \E fail \in BOOLEAN :
            /\ errd' = IF fail THEN setErr(conn[c]) ELSE errd
            /\ result' = [result EXCEPT ![c] = IF fail THEN "error" ELSE "ok"]
       /\ pc' = [pc EXCEPT ![c] = "release_open"]
       /\ cont' = [cont EXCEPT ![c] = "sent"]
       /\ UNCHANGED << opt, open, idle, counter, age, closed,
                       timer, conn, err, num, tried >>
    \/ /\ pc[c] = "sent"
       /\ result[c] # "misuse"
       /\ result' = [result EXCEPT ![c] = "misuse"]
       /\ UNCHANGED << opt, pool, pc, timer, conn, err, num, tried, cont >>

\* the caller reads the row stream of its Query to the end; a failing read
\* sets conn.err
Rows(c) ==
    /\ pc[c] = "rows"
    /\ \E fail \in BOOLEAN :
         errd' = IF fail THEN setErr(conn[c]) ELSE errd
    /\ Return(c)
    /\ UNCHANGED << opt, open, idle, counter, age, closed >>

(* -------------------------------- Close -------------------------------- *)
CallClose(c) ==
    /\ pc[c] = "ready"
    /\ pc' = [pc EXCEPT ![c] = "close"]
    /\ UNCHANGED << opt, pool, local >>

\* Close that takes the Sessions out of ch.idle and does not close them
CloseDrop(c) ==
    /\ pc[c] = "close"
    /\ IF idle # <<>>
       THEN /\ idle' = Tail(idle)
            /\ UNCHANGED << age, errd, closed, pc, local >>
       ELSE /\ pc' = [pc EXCEPT ![c] = "closed"]
            /\ UNCHANGED << idle, age, errd, closed, local >>
    /\ UNCHANGED << opt, open, counter >>

\* for { select { case c := <-ch.idle: c.close()  default: return nil } }
\* (a caller whose Close has returned is at "closed")
Close(c) ==
    /\ pc[c] = "close"
    /\ IF idle # <<>>
       THEN /\ idle' = Tail(idle)
            /\ closeConn(Head(idle))
            /\ UNCHANGED << pc, local >>
       ELSE /\ pc' = [pc EXCEPT ![c] = "closed"]
            /\ UNCHANGED << idle, age, errd, closed, local >>
    /\ UNCHANGED << opt, open, counter >>

(* -------------------------------- time --------------------------------- *)
\* a second passes
Tick ==
    /\ \E s \in Live : age[s] < opt.ConnMaxLifetime
    /\ age' = [s \in Live |-> IF age[s] < opt.ConnMaxLifetime THEN age[s] + 1 ELSE age[s]]
    /\ UNCHANGED << opt, open, idle, counter, errd, closed, pc, local >>

Next ==
    \/ Tick
    \/ \E c \in Callers :
         \/ Call(c)
         \/ TimerFires(c)
         \/ acquire(c)
         \/ ServerVersion(c)
         \/ Query(c)
         \/ Exec(c)
         \/ Ping(c)
         \/ PrepareBatch(c)
         \/ Send(c)
         \/ Rows(c)
         \/ release(c)
         \/ CallClose(c)
         \/ Close(c)

Spec == Init /\ [][Next]_vars

\* a goroutine inside acquire is scheduled when it can run, and the timer of
\* a running acquire fires
FairSpec ==
    /\ Spec
    /\ \A c \in Callers : WF_vars(acquire(c)) /\ WF_vars(TimerFires(c))

(* ------------------------- Open and setDefaults ------------------------ *)
\* the largest pool size a caller of Open asks for
MaxConns == 2

\* the Options values a caller may hand to Open: sizes unset, negative or
\* positive, and every other field either unset or set
InputOptions ==
    [ Addr : { <<>>, << "good" >> },
      Database : { "", "db" },
      Username : { "", "user" },
      DialTimeout : { 0, 2 },
      MaxOpenConns : -1..MaxConns,
      MaxIdleConns : -1..MaxConns,
      ConnMaxLifetime : { 0, 1 } ]

\* Open has been called with opt and has not run yet
OpenInit ==
    /\ opt \in InputOptions
    /\ open = 0
    /\ idle = <<>>
    /\ counter = 0
    /\ age = <<>>
    /\ errd = {}
    /\ closed = {}
    /\ pc = [c \in Callers |-> "open"]
    /\ timer = [c \in Callers |-> FALSE]
    /\ conn = [c \in Callers |-> Nil]
    /\ err = [c \in Callers |-> ErrNil]
    /\ num = [c \in Callers |-> 0]
    /\ tried = [c \in Callers |-> <<>>]
    /\ cont = [c \in Callers |-> "done"]
    /\ result = [c \in Callers |-> "none"]

\* Open: opt.setDefaults(), then the pool with its two empty channels; the
\* error it returns is nil whatever opt holds
Open ==
    /\ \A c \in Callers : pc[c] = "open"
    /\ opt' = setDefaults(opt)
    /\ open' = 0
    /\ idle' = <<>>
    /\ pc' = [c \in Callers |-> "ready"]
    /\ UNCHANGED << counter, age, errd, closed, local >>

OpenSpec == OpenInit /\ [][Open]_vars

(* ============================== claims ================================= *)
\* the caller holds a Session that acquire returned and that it has not yet
\* passed to release
CheckedOut(c) == pc[c] \in { "acquired", "batch" } /\ conn[c] # Nil

NumCheckedOut == Cardinality({ c \in Callers : CheckedOut(c) })

\* C1: at most MaxOpenConns Sessions are checked out at once, and the idle
\* queue never holds more than MaxIdleConns Sessions.
C1_Bounded ==
    /\ NumCheckedOut <= opt.MaxOpenConns
    /\ Len(idle) <= opt.MaxIdleConns

\* C1 witness: both bounds are met at once
C1_Witness ==
    /\ NumCheckedOut = opt.MaxOpenConns
    /\ Len(idle) = opt.MaxIdleConns

\* C2: an acquire whose dials all fail returns the last dial error and gives
\* back the permit it reserved.
C2_FailedDialFreesPermit ==
    [][ \A c \in Callers :
          ( /\ pc[c] = "acquire_dial"
            /\ pc'[c] = "acquired"
            /\ opt.Addr # <<>>
            /\ conn'[c] = Nil )
          => /\ err'[c] = DialError(Len(opt.Addr))
             /\ open' = open - 1 ]_vars

\* C3: an acquire that times out, at either select, leaves the permits and
\* the idle queue as they were before the call: a permit it reserved at the
\* first select is given back.
C3_TimeoutLeavesPool ==
    [][ \A c \in Callers :
          ( /\ pc[c] \in { "acquire_open", "acquire_idle" }
            /\ pc'[c] = "acquired"
            /\ err'[c] = EOF )
          => /\ idle' = idle
             /\ open' = IF pc[c] = "acquire_idle" THEN open - 1 ELSE open ]_vars

\* C4: checked-out Sessions plus idle Sessions never exceed MaxOpenConns.
C4_OpenPlusIdle == NumCheckedOut + Len(idle) <= opt.MaxOpenConns

\* C5: release closes a Session whose conn.err is set and keeps it out of
\* the idle queue; a closed Session is never idle and never checked out again.
C5_ErroredNeverReused ==
    /\ [][ \A c \in Callers :
             ( /\ pc[c] = "release_idle"
               /\ pc'[c] # "release_idle"
               /\ conn[c] \in errd )
             => conn[c] \in closed' /\ idle' = idle ]_vars
    /\ [](\A s \in closed :
             /\ s \notin Range(idle)
             /\ \A c \in Callers : CheckedOut(c) => conn[c] # s)

\* C5 witness: the flush of a Batch failed, Send passed the Session to release
\* with conn.err set, and release has closed it
C5_Witness ==
    \E c \in Callers : pc[c] = "sent" /\ result[c] = "error" /\ conn[c] \in closed

\* C6: release closes a healthy Session whose age has reached ConnMaxLifetime
\* and does not enqueue it; a healthy younger one is offered to the idle
\* queue (enqueued when there is room, closed when there is none).
C6_LifetimeAtRelease ==
    [][ \A c \in Callers :
          ( /\ pc[c] = "release_idle"
            /\ pc'[c] # "release_idle"
            /\ conn[c] \in Live \ errd )
          => IF age[conn[c]] >= opt.ConnMaxLifetime
             THEN conn[c] \in closed' /\ idle' = idle
             ELSE IF Len(idle) < opt.MaxIdleConns
             THEN idle' = Append(idle, conn[c]) /\ conn[c] \notin closed'
             ELSE conn[c] \in closed' /\ idle' = idle ]_vars

\* C6 witness: release is at its check with a healthy Session whose age is
\* exactly ConnMaxLifetime, and the idle queue has room
C6_Witness ==
    \E c \in Callers :
        /\ pc[c] = "release_idle"
        /\ conn[c] \in Live \ errd
        /\ age[conn[c]] = opt.ConnMaxLifetime
        /\ Len(idle) < opt.MaxIdleConns

\* C7: acquire dials the addresses in their configured order; it returns the
\* Session of the first address that answers, with a nil error and no further
\* dial, and when none answers it returns no Session and the error of the
\* last address.
C7_DialInOrder ==
    \A c \in Callers :
        /\ \A i \in 1..Len(tried[c]) : tried[c][i] = i
        /\ ( pc[c] = "acquired" /\ num[c] # 0 /\ opt.Addr # <<>> )
           => LET good == { i \in 1..Len(opt.Addr) : dialOk(opt.Addr[i]) }
              IN  IF good = {}
                  THEN /\ Len(tried[c]) = Len(opt.Addr)
                       /\ conn[c] = Nil
                       /\ err[c] = DialError(Len(opt.Addr))
                  ELSE /\ Len(tried[c]) = CHOOSE i \in good : \A j \in good : i <= j
                       /\ conn[c] = num[c]
                       /\ err[c] = ErrNil

\* C7 witness: [bad, bad, good] answered at its third address
C7_Witness ==
    \E c \in Callers :
        /\ pc[c] = "acquired"
        /\ tried[c] = << 1, 2, 3 >>
        /\ conn[c] # Nil
        /\ err[c] = ErrNil

\* C8: while every permit is held an acquire at its first select gets no
\* further, except by its timer, which ends it with a timeout error; once a
\* permit is free it can go on, and before its timer has fired going on is all
\* it can do; every acquire returns.
C8_BlocksThenReturns ==
    /\ [][ \A c \in Callers :
             ( pc[c] = "acquire_open" /\ open = opt.MaxOpenConns )
             => \/ pc'[c] = "acquire_open"
                \/ timer[c] /\ pc'[c] = "acquired" /\ conn'[c] = Nil /\ err'[c] = EOF ]_vars
    /\ [][ \A c \in Callers :
             ( pc[c] = "acquire_open" /\ open < opt.MaxOpenConns /\ ~timer[c] )
             => pc'[c] \in { "acquire_open", "acquire_idle" } ]_vars
    /\ [](\A c \in Callers :
             ( pc[c] = "acquire_open" /\ open < opt.MaxOpenConns )
             => ENABLED acquireOpen(c))
    /\ \A c \in Callers :
          ( pc[c] \in { "acquire_open", "acquire_idle", "acquire_dial" } )
          ~> ( pc[c] = "acquired" )

\* C8 witness: an acquire waits at its first select with every permit held
\* and no idle Session, while a release is about to free a permit
C8_Witness ==
    \E c, d \in Callers :
        /\ pc[c] = "acquire_open"
        /\ ~timer[c]
        /\ open = opt.MaxOpenConns
        /\ idle = <<>>
        /\ pc[d] = "release_open"

C10_BatchReleasedOnce ==
    /\ [](\A c \in Callers :
             pc[c] = "batch"
             => /\ conn[c] \in Live
                /\ conn[c] \notin Range(idle)
                /\ open >= Cardinality({ d \in Callers : pc[d] = "batch" }))
    /\ [][ \A c \in Callers :
             ( pc[c] = "batch" /\ pc'[c] # "batch" )
             => pc'[c] = "release_open" /\ cont'[c] = "sent" /\ conn'[c] = conn[c] ]_vars
    /\ [][ \A c \in Callers :
             pc[c] = "sent"
             => /\ pc'[c] = "sent"
                /\ result'[c] # result[c]
                   => result'[c] = "misuse" /\ UNCHANGED pool ]_vars

\* C10 witness: a second Send has been answered with the misuse error
C10_Witness ==
    \E c \in Callers : pc[c] = "sent" /\ result[c] = "misuse"

\* C11: whatever Options Open is given, after setDefaults MaxOpenConns is at
\* least MaxIdleConns and both are at least 1; an unset size, timeout,
\* lifetime, database or username has its default (idle 5, open idle + 5 with
\* the idle size already defaulted, one second, one hour, "default").
C11_DefaultsEstablished ==
    [][ ( \A c \in Callers : pc[c] = "open" /\ pc'[c] = "ready" )
        => /\ opt'.MaxOpenConns >= opt'.MaxIdleConns
           /\ opt'.MaxIdleConns >= 1
           /\ opt'.MaxOpenConns >= 1
           /\ opt.MaxIdleConns <= 0 => opt'.MaxIdleConns = 5
           /\ opt.MaxOpenConns <= 0 => opt'.MaxOpenConns = opt'.MaxIdleConns + 5
           /\ opt.DialTimeout = 0 => opt'.DialTimeout = Second
           /\ opt.ConnMaxLifetime = 0 => opt'.ConnMaxLifetime = Hour
           /\ opt.Database = "" => opt'.Database = "default"
           /\ opt.Username = "" => opt'.Username = "default" ]_vars

\* C12: acquire never returns a nil Session together with a nil error, also
\* when the address list is empty (which Open accepts).
C12_NeverNilNil ==
    \A c \in Callers :
        pc[c] = "acquired" => ~( conn[c] = Nil /\ err[c] = ErrNil )

\* no caller other than c is inside acquire, release or Close
NoConcurrentOp(c) ==
    \A d \in Callers \ { c } :
        pc[d] \in { "ready", "done", "closed", "batch", "sent", "rows", "panicked" }

\* C13: a step of a Close that runs with no concurrent operation takes the
\* head of the idle queue and closes it; Close returns only when the idle queue
\* is empty; no step of it changes the held permits, the counter or the
\* Session and place of another caller, and a checked-out Session stays open.
C13_CloseDrainsIdle ==
    [][ \A c \in Callers :
          ( pc[c] = "close" /\ NoConcurrentOp(c)
            /\ ( idle' # idle \/ pc'[c] # "close" ) )
          => /\ IF idle # <<>>
                THEN /\ idle' = Tail(idle)
                     /\ Head(idle) \in closed'
                     /\ DOMAIN age' = Live \ { Head(idle) }
                     /\ pc'[c] = "close"
                ELSE /\ pc'[c] = "closed"
                     /\ idle' = <<>>
                     /\ closed' = closed
                     /\ DOMAIN age' = Live
             /\ open' = open
             /\ counter' = counter
             /\ \A d \in Callers \ { c } :
                  /\ pc'[d] = pc[d]
                  /\ conn'[d] = conn[d]
                  /\ pc[d] = "batch" => conn[d] \in DOMAIN age' ]_vars

\* C13 witness: Close runs alone and finds a Session in the idle queue
C13_Witness ==
    \E c \in Callers : pc[c] = "close" /\ NoConcurrentOp(c) /\ idle # <<>>

\* the caller has conn in its hands: acquire returned it, or release took it
\* and has not yet enqueued or closed it
InHand(c) ==
    pc[c] \in { "acquired", "batch", "release_open", "release_idle" } /\ conn[c] # Nil

\* C14: every Session created is checked out, in the idle queue, in the hands
\* of a running release, or closed: no open Session is left without a holder;
\* no closed Session is in the idle queue or in a caller's hands.
C14_SessionsAccounted ==
    /\ \A s \in Live :
         \/ s \in Range(idle)
         \/ \E c \in Callers : InHand(c) /\ conn[c] = s
    /\ Range(idle) \cap closed = {}
    /\ \A c \in Callers : InHand(c) => conn[c] \in Live
    /\ Live \cap closed = {}

\* C14 witness: one Session sits in the idle queue while a release has
\* another open Session in its hands
C14_Witness ==
    /\ idle # <<>>
    /\ \E c \in Callers :
         pc[c] = "release_open" /\ conn[c] \in Live /\ conn[c] \notin Range(idle)

\* C15: no two acquires hold the same identity and an identity is never that
\* of a Session already made; each identity handed out is larger than every
\* identity handed out before it, under every interleaving.
C15_IdentitiesUniqueIncreasing ==
    /\ [](/\ \A c, d \in Callers :
               ( c # d /\ num[c] # 0 /\ num[d] # 0 ) => num[c] # num[d]
          /\ \A c \in Callers :
               /\ num[c] <= counter
               /\ pc[c] = "acquire_dial" => num[c] \notin Sessions
          /\ Sessions \subseteq 1..counter)
    /\ [][ \A c \in Callers :
             ( num'[c] # num[c] /\ num'[c] # 0 )
             => /\ num'[c] > counter
                /\ \A s \in Sessions : num'[c] > s
                /\ \A d \in Callers : num'[c] > num[d] ]_vars
    /\ [][ counter' >= counter ]_vars

\* C15 witness: two acquires are dialing at the same time
C15_Witness ==
    \E c, d \in Callers :
        c # d /\ pc[c] = "acquire_dial" /\ pc[d] = "acquire_dial"

\* C16: release never blocks: its next step can always be taken; the first
\* frees one permit when one is held and changes nothing else of the pool;
\* the second, for a healthy Session younger than ConnMaxLifetime, enqueues it
\* when the idle queue has room and closes it when the queue is full.
C16_ReleaseNeverBlocks ==
    /\ [](\A c \in Callers :
            /\ pc[c] = "release_open" => ENABLED releaseOpen(c)
            /\ ( pc[c] = "release_idle" /\ conn[c] # Nil ) => ENABLED releaseIdle(c))
    /\ [][ \A c \in Callers :
             ( pc[c] = "release_open" /\ pc'[c] # pc[c] )
             => /\ pc'[c] = "release_idle"
                /\ open' = IF open > 0 THEN open - 1 ELSE 0
                /\ UNCHANGED << idle, age, errd, closed, counter >> ]_vars
    /\ [][ \A c \in Callers :
             ( pc[c] = "release_idle" /\ pc'[c] # pc[c] /\ conn[c] \in Live
               /\ conn[c] \notin errd /\ age[conn[c]] < opt.ConnMaxLifetime )
             => /\ open' = open
                /\ IF Len(idle) < opt.MaxIdleConns
                   THEN idle' = Append(idle, conn[c]) /\ conn[c] \in DOMAIN age'
                   ELSE idle' = idle /\ conn[c] \in closed' ]_vars

\* C16 witness: release is about to hand back a healthy young Session while
\* the idle queue is full
C16_Witness ==
    \E c \in Callers :
        /\ pc[c] = "release_idle"
        /\ conn[c] \in Live
        /\ conn[c] \notin errd
        /\ age[conn[c]] < opt.ConnMaxLifetime
        /\ Len(idle) = opt.MaxIdleConns

\* C17 as stated: an acquire that holds a permit and finds the idle queue
\* non-empty returns the head of the queue, without dialing and without
\* incrementing the counter.
C17_IdleHeadReturned ==
    [][ \A c \in Callers :
          ( pc[c] = "acquire_idle" /\ idle # <<>> /\ pc'[c] # pc[c] )
          => /\ pc'[c] = "acquired"
             /\ conn'[c] = Head(idle)
             /\ err'[c] = ErrNil
             /\ counter' = counter ]_vars

\* C17: an acquire that holds a permit and finds the idle queue non-empty
\* never dials and never increments the counter; it returns the head of the
\* queue, or, once its timer has fired, possibly the timeout error instead;
\* the counter changes only by one, at the step by which an acquire that
\* found the idle queue empty proceeds to dial, whatever the addresses tried.
C17_IdleWithoutDial ==
    /\ [][ \A c \in Callers :
             ( pc[c] = "acquire_idle" /\ idle # <<>> /\ pc'[c] # pc[c] )
             => /\ pc'[c] = "acquired"
                /\ counter' = counter
                /\ tried'[c] = <<>>
                /\ \/ conn'[c] = Head(idle) /\ err'[c] = ErrNil /\ idle' = Tail(idle)
                   \/ timer[c] /\ conn'[c] = Nil /\ err'[c] = EOF /\ idle' = idle ]_vars
    /\ [][ counter' # counter
           => /\ counter' = counter + 1
              /\ \E c \in Callers :
                   pc[c] = "acquire_idle" /\ pc'[c] = "acquire_dial" /\ idle = <<>> ]_vars
    /\ [][ \A c \in Callers :
             ( pc[c] = "acquire_idle" /\ pc'[c] = "acquire_dial" )
             => counter' = counter + 1 /\ num'[c] = counter' ]_vars

\* C17 witness: the one Session ever dialed has been handed out again from
\* the idle queue, the counter still at one
C17_Witness ==
    \E c \in Callers :
        pc[c] = "acquired" /\ conn[c] = 1 /\ num[c] = 0 /\ counter = 1 /\ 1 \in Live

\* C18: while the caller of Query reads its row stream, the Session behind the
\* stream is neither in the idle queue nor in the hands of another caller.
C18_RowsSessionExclusive ==
    \A c \in Callers :
        pc[c] = "rows"
        => /\ conn[c] \notin Range(idle)
           /\ \A d \in Callers \ { c } : ~( InHand(d) /\ conn[d] = conn[c] )

\* C19: acquire takes the head of a non-empty idle queue whatever its age: the
\* receive is open to it also when the head has reached ConnMaxLifetime, and
\* the Session it returns is the head, still open, its age untouched.
C19_NoLifetimeCheckAtAcquire ==
    /\ [](\A c \in Callers :
            ( pc[c] = "acquire_idle" /\ idle # <<>> ) => ENABLED acquireIdle(c))
    /\ [][ \A c \in Callers :
             ( pc[c] = "acquire_idle" /\ pc'[c] = "acquired" /\ err'[c] = ErrNil )
             => /\ conn'[c] = Head(idle)
                /\ conn'[c] \in DOMAIN age'
                /\ age'[conn'[c]] = age[conn'[c]] ]_vars

\* C19 witness: acquire is at its check of the idle queue and the head of the
\* queue has reached ConnMaxLifetime
C19_Witness ==
    \E c \in Callers :
        /\ pc[c] = "acquire_idle"
        /\ idle # <<>>
        /\ age[Head(idle)] >= opt.ConnMaxLifetime
        /\ Head(idle) \notin errd

\* some call of Close has returned
CloseReturned == \E k \in Callers : pc[k] = "closed"

\* C20: Close leaves no closed state behind.  Its return changes nothing of
\* the pool; after it has returned an acquire still gets a permit when one is
\* free, still goes on to dial when the idle queue is empty and still dials
\* the addresses; a release that runs during or after Close still puts a
\* healthy young Session into an idle queue that has room, and leaves it open.
C20_NoClosedState ==
    /\ [][ \A k \in Callers :
             ( pc[k] = "close" /\ pc'[k] = "closed" )
             => UNCHANGED << opt, open, idle, counter, age, errd, closed >> ]_vars
    /\ [](CloseReturned
          => \A c \in Callers :
               /\ ( pc[c] = "acquire_open" /\ open < opt.MaxOpenConns )
                  => ENABLED acquireOpen(c)
               /\ ( pc[c] = "acquire_idle" /\ idle = <<>> /\ ~timer[c] )
                  => ENABLED acquireDefault(c)
               /\ ( pc[c] = "acquire_dial" /\ Len(tried[c]) < Len(opt.Addr) )
                  => ENABLED acquireDial(c))
    /\ [][ \A c \in Callers :
             ( ( \E k \in Callers : pc[k] \in { "close", "closed" } )
               /\ pc[c] = "release_idle" /\ pc'[c] # pc[c] /\ conn[c] \in Live
               /\ conn[c] \notin errd /\ age[conn[c]] < opt.ConnMaxLifetime
               /\ Len(idle) < opt.MaxIdleConns )
             => idle' = Append(idle, conn[c]) /\ conn[c] \in DOMAIN age' ]_vars

\* C20 witness: Close has returned and an open Session is in the idle queue
C20_Witness ==
    /\ CloseReturned
    /\ idle # <<>>
    /\ Head(idle) \in Live

====
